---- MODULE Spec2Model ----
(***************************************************************************)
(* A model of two parts of packages/common:                                *)
(*                                                                         *)
(*   - BrowserPlatformLocation (src/location/platform_location.ts): the    *)
(*     text-fragment preserving pushState/replaceState wrapper;            *)
(*   - NgOptimizedPicture (src/directives/ng_optimized_image/              *)
(*     ng_optimized_picture.ts): the three effects that generate <source>  *)
(*     children of a <picture> element.                                    *)
(*                                                                         *)
(* The two parts share no state.  NavSpec runs the location adapter and    *)
(* PicSpec runs the directive; each keeps the other part's variables at    *)
(* their initial value.                                                    *)
(***************************************************************************)
EXTENDS Naturals, Integers, Sequences, FiniteSets, TLC

VARIABLES
    \* ---- BrowserPlatformLocation ----
    location,            \* window.location: [pq |-> pathname+search, hash |-> hash]
    navEntryHash,        \* the hash part of performance navigation entry 0 ("" when none)
    fdFragment,          \* the directive rebuilt from document.fragmentDirective (NULL when none)
    textFragmentHash,    \* this.textFragmentHash (NULL or a hash string)
    initialPathQuery,    \* this.initialPathQuery
    skipInitialReplace,  \* this.skipInitialReplace
    last,                \* what the last pushState/replaceState call did (history variable)
    nOps,                \* number of pushState/replaceState calls so far
    nReplace,            \* number of replaceState calls so far
    nSuppressed,         \* number of replaceState calls that returned without a native call
    \* ---- NgOptimizedPicture ----
    sources,             \* value of the sources input signal
    children,            \* element children of the host element, in document order
    generatedSources,    \* value of the generatedSources signal
    initialized,         \* value of the initialized signal
    ngDevMode,           \* the development-mode flag
    ngServerMode,        \* the server-rendering flag
    hostTag,             \* this.pictureElement.tagName
    imageLoader,         \* the injected IMAGE_LOADER: "noop" (noopImageLoader) or "custom"
    breakpoints,         \* this.config.breakpoints
    priority,            \* priority of the NgOptimizedImage on the img child
    dirty,               \* scheduler: the effects waiting to run
    depsA,               \* scheduler: the signals Effect 1 read on its last run
    lastRun,             \* the effect run the last step was, if it was one (history variable)
    generatedFrom,       \* the sources value generatedSources was made from (history variable)
    calls                \* collaborator calls that run made (history variable)

navVars == <<location, navEntryHash, fdFragment, textFragmentHash, initialPathQuery,
             skipInitialReplace, last, nOps, nReplace, nSuppressed>>

picVars == <<sources, children, generatedSources, initialized, ngDevMode,
             ngServerMode, hostTag, imageLoader, breakpoints, priority, dirty, depsA,
             lastRun, generatedFrom, calls>>

vars == <<navVars, picVars>>

-----------------------------------------------------------------------------
(***************************************************************************)
(* Bounds of the model.                                                    *)
(***************************************************************************)
\* pushState/replaceState calls made on one adapter
MaxOps == 3
\* length of the sources input
MaxSources == 2

-----------------------------------------------------------------------------
(***************************************************************************)
(* JavaScript values.  A url argument (string | null) is a record: kind    *)
(* "null" is null/undefined, kind "bad" is a string new URL() rejects, and *)
(* kind "str" is the string origin \o pq \o hash, where origin is "" for a *)
(* relative reference and pq is "" for a reference that keeps the current  *)
(* path ("" itself, or "#sec").                                            *)
(***************************************************************************)
NULL == "<null>"

TEXT_FRAGMENT_DIRECTIVE == ":~:text="

Origin == "http://host"
BadUrlText == "http://["

PathQueries == {"/a", "/b?q=1"}

\* hashes carrying the directive, by the source that supplied them
HashHl == "#" \o TEXT_FRAGMENT_DIRECTIVE \o "hl"
HashNav == "#" \o TEXT_FRAGMENT_DIRECTIVE \o "nav"
HashFd == "#" \o TEXT_FRAGMENT_DIRECTIVE \o "fd"
DirectiveHashes == {HashHl, HashNav, HashFd}
Hashes == {"", "#sec", HashHl}

\* String.prototype.includes(TEXT_FRAGMENT_DIRECTIVE) on a hash of the model
IncludesDirective(h) == h \in DirectiveHashes

NullUrl == [kind |-> "null", origin |-> "", pq |-> "", hash |-> ""]
BadUrl == [kind |-> "bad", origin |-> "", pq |-> "", hash |-> ""]
StrUrl(o, p, h) == [kind |-> "str", origin |-> o, pq |-> p, hash |-> h]
EmptyUrl == StrUrl("", "", "")

\* the url arguments a caller passes
UrlArgs ==
    {NullUrl, BadUrl}
    \cup {StrUrl(o, p, h) : o \in {"", Origin}, p \in PathQueries, h \in Hashes}
    \cup {StrUrl("", "", h) : h \in Hashes}

\* String(url) of a non-null url
Str(u) == IF u.kind = "bad" THEN BadUrlText ELSE u.origin \o u.pq \o u.hash

\* the part of String(url) before the first '#'
BeforeHash(u) == IF u.kind = "bad" THEN BadUrlText ELSE u.origin \o u.pq

\* new URL(String(url), location.href): [ok, pq (pathname+search), hash]
\* A reference without a path keeps the base's path and query; the base's
\* fragment is never inherited.
NewURL(u, loc) ==
    IF u.kind = "bad" THEN [ok |-> FALSE, pq |-> "", hash |-> ""]
    ELSE [ok |-> TRUE,
          pq |-> IF u.pq = "" THEN loc.pq ELSE u.pq,
          hash |-> u.hash]

\* URL.prototype.toString(): always the absolute form
UrlToString(r) == StrUrl(Origin, r.pq, r.hash)

-----------------------------------------------------------------------------
(***************************************************************************)
(* BrowserPlatformLocation                                                 *)
(***************************************************************************)

\* extractFragment(url), on the hash part of a url
extractFragment(hash) ==
    IF ~IncludesDirective(hash) THEN NULL ELSE hash

\* detectInitialTextFragment with the last non-null source winning
detectInitialTextFragment_LastWins(loc, nav, fd) ==
    LET fragments == << extractFragment(loc.hash), extractFragment(nav), fd >>
        found == {i \in 1..3 : fragments[i] # NULL}
    IN  IF found = {} THEN NULL
        ELSE fragments[CHOOSE i \in found : \A j \in found : i >= j]

\* detectInitialTextFragment(): the first non-null source wins
detectInitialTextFragment(loc, nav, fd) ==
    LET fragments == << extractFragment(loc.hash), extractFragment(nav), fd >>
        found == {i \in 1..3 : fragments[i] # NULL}
    IN  IF found = {} THEN NULL
        ELSE fragments[CHOOSE i \in found : \A j \in found : i <= j]

currentPathQuery == location.pq

\* ensureTextFragment without line 241: a url with another path+query is
\* passed through but the fragment stays tracked
ensureTextFragment_KeepsTracking(url, pathQuery) ==
    LET fragment == textFragmentHash
        resolved == NewURL(url, location)
    IN  IF fragment = NULL
        THEN [ret |-> url, tf |-> textFragmentHash]
        ELSE IF url.kind = "null" \/ url = EmptyUrl
        THEN IF IncludesDirective(location.hash)
             THEN [ret |-> NullUrl, tf |-> NULL]
             ELSE [ret |-> StrUrl("", pathQuery, fragment), tf |-> textFragmentHash]
        ELSE IF ~resolved.ok
        THEN [ret |-> url, tf |-> NULL]
        ELSE IF resolved.pq = pathQuery /\ ~IncludesDirective(resolved.hash)
        THEN [ret |-> UrlToString([resolved EXCEPT !.hash = fragment]),
              tf |-> textFragmentHash]
        ELSE [ret |-> url, tf |-> textFragmentHash]

\* ensureTextFragment whose catch block (lines 243-246) leaves the fragment
\* tracked
ensureTextFragment_CatchKeeps(url, pathQuery) ==
    LET fragment == textFragmentHash
        resolved == NewURL(url, location)
    IN  IF fragment = NULL
        THEN [ret |-> url, tf |-> textFragmentHash]
        ELSE IF url.kind = "null" \/ url = EmptyUrl
        THEN IF IncludesDirective(location.hash)
             THEN [ret |-> NullUrl, tf |-> NULL]
             ELSE [ret |-> StrUrl("", pathQuery, fragment), tf |-> textFragmentHash]
        ELSE IF ~resolved.ok
        THEN [ret |-> url, tf |-> textFragmentHash]
        ELSE IF resolved.pq = pathQuery /\ ~IncludesDirective(resolved.hash)
        THEN [ret |-> UrlToString([resolved EXCEPT !.hash = fragment]),
              tf |-> textFragmentHash]
        ELSE [ret |-> url, tf |-> NULL]

\* ensureTextFragment without the test of the live hash (lines 228-231)
ensureTextFragment_LiveHashIgnored(url, pathQuery) ==
    LET fragment == textFragmentHash
        resolved == NewURL(url, location)
    IN  IF fragment = NULL
        THEN [ret |-> url, tf |-> textFragmentHash]
        ELSE IF url.kind = "null" \/ url = EmptyUrl
        THEN [ret |-> StrUrl("", pathQuery, fragment), tf |-> textFragmentHash]
        ELSE IF ~resolved.ok
        THEN [ret |-> url, tf |-> NULL]
        ELSE IF resolved.pq = pathQuery /\ ~IncludesDirective(resolved.hash)
        THEN [ret |-> UrlToString([resolved EXCEPT !.hash = fragment]),
              tf |-> textFragmentHash]
        ELSE [ret |-> url, tf |-> NULL]

\* ensureTextFragment returning path+query+fragment instead of resolved.toString()
ensureTextFragment_Relative(url, pathQuery) ==
    LET fragment == textFragmentHash
        resolved == NewURL(url, location)
    IN  IF fragment = NULL
        THEN [ret |-> url, tf |-> textFragmentHash]
        ELSE IF url.kind = "null" \/ url = EmptyUrl
        THEN IF IncludesDirective(location.hash)
             THEN [ret |-> NullUrl, tf |-> NULL]
             ELSE [ret |-> StrUrl("", pathQuery, fragment), tf |-> textFragmentHash]
        ELSE IF ~resolved.ok
        THEN [ret |-> url, tf |-> NULL]
        ELSE IF resolved.pq = pathQuery /\ ~IncludesDirective(resolved.hash)
        THEN [ret |-> StrUrl("", resolved.pq, fragment), tf |-> textFragmentHash]
        ELSE [ret |-> url, tf |-> NULL]

\* ensureTextFragment that keeps a hash the url brings and splices the
\* fragment only onto a url without hash
ensureTextFragment_KeepsOwnHash(url, pathQuery) ==
    LET fragment == textFragmentHash
        resolved == NewURL(url, location)
    IN  IF fragment = NULL
        THEN [ret |-> url, tf |-> textFragmentHash]
        ELSE IF url.kind = "null" \/ url = EmptyUrl
        THEN IF IncludesDirective(location.hash)
             THEN [ret |-> NullUrl, tf |-> NULL]
             ELSE [ret |-> StrUrl("", pathQuery, fragment), tf |-> textFragmentHash]
        ELSE IF ~resolved.ok
        THEN [ret |-> url, tf |-> NULL]
        ELSE IF resolved.pq = pathQuery /\ ~IncludesDirective(resolved.hash)
        THEN [ret |-> UrlToString([resolved EXCEPT
                         !.hash = IF resolved.hash = "" THEN fragment ELSE resolved.hash]),
              tf |-> textFragmentHash]
        ELSE [ret |-> url, tf |-> NULL]

\* ensureTextFragment(url, initialPathQuery): [ret |-> the normalized url,
\* tf |-> this.textFragmentHash on return]
ensureTextFragment(url, pathQuery) ==
    LET fragment == textFragmentHash
        resolved == NewURL(url, location)
    IN  IF fragment = NULL
        THEN [ret |-> url, tf |-> textFragmentHash]
        ELSE IF url.kind = "null" \/ url = EmptyUrl
        THEN IF IncludesDirective(location.hash)
             THEN [ret |-> NullUrl, tf |-> NULL]
             ELSE [ret |-> StrUrl("", pathQuery, fragment), tf |-> textFragmentHash]
        ELSE IF ~resolved.ok
        THEN [ret |-> url, tf |-> NULL]
        ELSE IF resolved.pq = pathQuery /\ ~IncludesDirective(resolved.hash)
        THEN [ret |-> UrlToString([resolved EXCEPT !.hash = fragment]),
              tf |-> textFragmentHash]
        ELSE [ret |-> url, tf |-> NULL]

\* isSameInitialPath(url)
isSameInitialPath(url) ==
    IF url.kind = "null" THEN TRUE
    ELSE BeforeHash(url) = initialPathQuery

\* normalizedUrl ?? ''
OrEmpty(u) == IF u.kind = "null" THEN EmptyUrl ELSE u

\* window.location after history.pushState/replaceState(state, title, u):
\* '' keeps the document's url, an unparsable url throws and changes nothing
NativeNavigate(loc, u) ==
    IF u.kind = "bad" \/ u = EmptyUrl THEN loc
    ELSE [pq |-> IF u.pq = "" THEN loc.pq ELSE u.pq, hash |-> u.hash]

CallRecord(op, url, n, native) ==
    [op |-> op, url |-> url, normalized |-> n.ret, native |-> native,
     nativeUrl |-> IF native THEN OrEmpty(n.ret) ELSE NullUrl,
     tfBefore |-> textFragmentHash, skipBefore |-> skipInitialReplace,
     locBefore |-> location, replaceIndex |-> 0]

NoCall ==
    [op |-> "none", url |-> NullUrl, normalized |-> NullUrl, native |-> FALSE,
     nativeUrl |-> NullUrl, tfBefore |-> NULL, skipBefore |-> FALSE,
     locBefore |-> [pq |-> "", hash |-> ""], replaceIndex |-> 0]

\* pushState that consumes the latch as replaceState does
pushState_ConsumesLatch(url) ==
    LET n == ensureTextFragment(url, currentPathQuery)
    IN  /\ nOps < MaxOps
        /\ textFragmentHash' = n.tf
        /\ skipInitialReplace' = FALSE
        /\ location' = NativeNavigate(location, OrEmpty(n.ret))
        /\ last' = CallRecord("push", url, n, TRUE)
        /\ nOps' = nOps + 1
        /\ UNCHANGED <<navEntryHash, fdFragment, initialPathQuery, nReplace, nSuppressed>>
        /\ UNCHANGED picVars

\* pushState(state, title, url) (lines 184-187)
pushState(url) ==
    LET n == ensureTextFragment(url, currentPathQuery)
    IN  /\ nOps < MaxOps
        /\ textFragmentHash' = n.tf
        /\ location' = NativeNavigate(location, OrEmpty(n.ret))
        /\ last' = CallRecord("push", url, n, TRUE)
        /\ nOps' = nOps + 1
        /\ UNCHANGED <<navEntryHash, fdFragment, initialPathQuery, skipInitialReplace,
                       nReplace, nSuppressed>>
        /\ UNCHANGED picVars

\* line 191 without the latch: every replaceState to the initial path is dropped
SkipsInitialReplace_NoLatch(normalizedUrl) ==
    isSameInitialPath(normalizedUrl)

\* the test of line 191, on the state replaceState is called in
SkipsInitialReplace(normalizedUrl) ==
    skipInitialReplace /\ isSameInitialPath(normalizedUrl)

\* replaceState whose skipped branch leaves the latch armed (no line 196)
replaceState_SkipKeepsLatch(url) ==
    LET n == ensureTextFragment(url, currentPathQuery)
        skip == SkipsInitialReplace(n.ret)
    IN  /\ nOps < MaxOps
        /\ textFragmentHash' = n.tf
        /\ skipInitialReplace' = IF skip THEN skipInitialReplace ELSE FALSE
        /\ location' = IF skip THEN location ELSE NativeNavigate(location, OrEmpty(n.ret))
        /\ last' = [CallRecord("replace", url, n, ~skip) EXCEPT !.replaceIndex = nReplace + 1]
        /\ nOps' = nOps + 1
        /\ nReplace' = nReplace + 1
        /\ nSuppressed' = IF skip THEN nSuppressed + 1 ELSE nSuppressed
        /\ UNCHANGED <<navEntryHash, fdFragment, initialPathQuery>>
        /\ UNCHANGED picVars

\* replaceState(state, title, url) (lines 189-201)
replaceState(url) ==
    LET n == ensureTextFragment(url, currentPathQuery)
        skip == SkipsInitialReplace(n.ret)
    IN  /\ nOps < MaxOps
        /\ textFragmentHash' = n.tf
        /\ skipInitialReplace' = FALSE
        /\ location' = IF skip THEN location ELSE NativeNavigate(location, OrEmpty(n.ret))
        /\ last' = [CallRecord("replace", url, n, ~skip) EXCEPT !.replaceIndex = nReplace + 1]
        /\ nOps' = nOps + 1
        /\ nReplace' = nReplace + 1
        /\ nSuppressed' = IF skip THEN nSuppressed + 1 ELSE nSuppressed
        /\ UNCHANGED <<navEntryHash, fdFragment, initialPathQuery>>
        /\ UNCHANGED picVars

\* the directive is not instantiated
PicIdle ==
    /\ sources = <<>>
    /\ children = <<>>
    /\ generatedSources = <<>>
    /\ initialized = FALSE
    /\ ngDevMode = FALSE
    /\ ngServerMode = FALSE
    /\ hostTag = "PICTURE"
    /\ imageLoader = "noop"
    /\ breakpoints = <<>>
    /\ priority = FALSE
    /\ dirty = {}
    /\ depsA = {}
    /\ lastRun = <<>>
    /\ generatedFrom = <<>>
    /\ calls = <<>>

\* the state the constructor leaves
NavInit ==
    /\ location \in [pq : PathQueries, hash : Hashes]
    /\ navEntryHash \in {"", HashNav}
    /\ fdFragment \in {NULL, HashFd}
    /\ initialPathQuery = location.pq
    /\ textFragmentHash = detectInitialTextFragment(location, navEntryHash, fdFragment)
    /\ skipInitialReplace = (textFragmentHash # NULL)
    /\ last = NoCall
    /\ nOps = 0
    /\ nReplace = 0
    /\ nSuppressed = 0

NavNext ==
    \/ \E url \in UrlArgs : pushState(url)
    \/ \E url \in UrlArgs : replaceState(url)

NavSpecInit == NavInit /\ PicIdle

NavSpec == NavSpecInit /\ [][NavNext]_vars

-----------------------------------------------------------------------------
(***************************************************************************)
(* Properties of BrowserPlatformLocation (checked under NavSpec)           *)
(***************************************************************************)

Called == last.op # "none"
Suppressed == last.op = "replace" /\ ~last.native

\* path+query of the destination of the last call: the location current at
\* the time of the call for a null/empty url, the resolved url otherwise
DestPathQuery ==
    IF last.url.kind = "null" \/ last.url = EmptyUrl THEN last.locBefore.pq
    ELSE IF last.url.kind = "bad" THEN "<unresolved>"
    ELSE NewURL(last.url, last.locBefore).pq

\* C1: on an adapter constructed with a text fragment detected, the first
\* replaceState call whose url resolves to the initial path+query does not
\* reach native history.replaceState and leaves location.hash as it was.
C1_FirstSameUrlReplaceSkipped ==
    (/\ last.op = "replace"
     /\ last.replaceIndex = 1
     /\ last.skipBefore
     /\ DestPathQuery = initialPathQuery)
    => (~last.native /\ location.hash = last.locBefore.hash)

\* C2: at most one replaceState call is suppressed and it can only be the
\* first replaceState call; once a replaceState call has returned the latch
\* is false, and every later replaceState call reaches the native method.
C2_OnlyFirstReplaceSuppressed ==
    /\ nSuppressed <= 1
    /\ (nReplace >= 1 => ~skipInitialReplace)
    /\ (Suppressed => last.replaceIndex = 1 /\ last.skipBefore)
    /\ (last.op = "replace" /\ last.replaceIndex > 1 => last.native)

\* C2 witness: a second replaceState call that reached the native method
\* after the first one was suppressed.
C2_Witness ==
    /\ last.op = "replace"
    /\ last.replaceIndex = 2
    /\ nSuppressed = 1
    /\ last.native

\* C3: a replaceState call is suppressed only if the path+query of its
\* destination equals initialPathQuery, whatever the form of the url.
C3_SuppressedOnlyForInitialPath ==
    Suppressed => DestPathQuery = initialPathQuery

\* C4: a call made while textFragmentHash is null reaches the native history
\* method with the caller's url (null passed as ''): never suppressed, never
\* rewritten.
C4_PassThroughWhenUntracked ==
    (Called /\ last.tfBefore = NULL)
    => (last.native /\ last.nativeUrl = OrEmpty(last.url))

\* C5: a call whose destination differs in path+query from the initial one
\* leaves textFragmentHash null; textFragmentHash never goes from null back
\* to a fragment, and a call made while it is null returns the url as given
\* (no fragment appended).
C5_TrackingClearedForGood ==
    /\ (Called /\ DestPathQuery # initialPathQuery => textFragmentHash = NULL)
    /\ (Called /\ last.tfBefore = NULL
          => textFragmentHash = NULL /\ last.normalized = last.url)

\* C5 witness: a call to another path+query made while a fragment was
\* tracked, which cleared it.
C5_Witness ==
    /\ Called
    /\ last.tfBefore # NULL
    /\ last.url.kind = "str"
    /\ DestPathQuery # initialPathQuery
    /\ textFragmentHash = NULL

-----------------------------------------------------------------------------
(***************************************************************************)
(* NgOptimizedPicture: values                                              *)
(*                                                                         *)
(* An optional field or attribute is <<>> when absent and <<v>> when       *)
(* present.  A url returned by the image loader is kept symbolic:          *)
(* [loader, src, width]; a srcset string is the sequence of its            *)
(* comma-separated entries [url, n, unit] ("url 2x" is [url, 2, "x"], a    *)
(* bare url is [url, 0, ""]).                                              *)
(***************************************************************************)
DENSITY_SRCSET_MULTIPLIERS == <<1, 2>>
VIEWPORT_BREAKPOINT_CUTOFF == 640
FIXED_SRCSET_WIDTH_LIMIT == 1920
FIXED_SRCSET_HEIGHT_LIMIT == 1080

Absent == <<>>
Some(v) == <<v>>

\* JavaScript truthiness of an optional string
Truthy(opt) == opt # Absent /\ opt[1] # ""

PictureSource(srcset, media, type, sizes, width, height) ==
    [srcset |-> srcset, media |-> media, type |-> type, sizes |-> sizes,
     width |-> width, height |-> height]

\* the sources the directive is driven with
SourcePool ==
    { PictureSource("a.jpg", Some("(min-width: 1024px)"), Absent, Absent, Some(800), Some(600)),
      PictureSource("b.webp", Absent, Some("image/webp"), Some("100vw"), Some(1920), Some(1080)) }

RECURSIVE SeqsUpTo(_, _)
SeqsUpTo(S, n) ==
    IF n = 0 THEN {<<>>}
    ELSE LET shorter == SeqsUpTo(S, n - 1)
         IN  shorter \cup {Append(q, x) : q \in shorter, x \in S}

SourceSeqs == SeqsUpTo(SourcePool, MaxSources)

\* String.prototype.trim() on the sizes values of the model
Trim(str) == IF str \in {" 100vw ", "100vw "} THEN "100vw" ELSE str

\* Array.prototype.sort((a, b) => a - b)
RECURSIVE SortAsc(_)
SortAsc(q) ==
    IF Len(q) <= 1 THEN q
    ELSE LET i == CHOOSE k \in 1..Len(q) : \A j \in 1..Len(q) : q[k] <= q[j]
             rest == [j \in 1..(Len(q) - 1) |-> IF j < i THEN q[j] ELSE q[j + 1]]
         IN  <<q[i]>> \o SortAsc(rest)

\* processConfig without the sort
processConfig_Unsorted(injected) == injected

\* processConfig(config).breakpoints, for injected breakpoints
processConfig(injected) == SortAsc(injected)

\* this.imageLoader(config): noopImageLoader returns config.src
callImageLoader(src, width) ==
    IF imageLoader = "noop"
    THEN [loader |-> "noop", src |-> src, width |-> Absent]
    ELSE [loader |-> "custom", src |-> src, width |-> width]

SrcsetEntry(url, n, unit) == [url |-> url, n |-> n, unit |-> unit]

\* getResponsiveSrcset(sourceConfig)
getResponsiveSrcset(sourceConfig) ==
    LET Keep(bp) == bp >= VIEWPORT_BREAKPOINT_CUTOFF
        filteredBreakpoints ==
            IF sourceConfig.sizes # Absent /\ Trim(sourceConfig.sizes[1]) = "100vw"
            THEN SelectSeq(breakpoints, Keep)
            ELSE breakpoints
    IN  [i \in 1..Len(filteredBreakpoints) |->
            SrcsetEntry(callImageLoader(sourceConfig.srcset, Some(filteredBreakpoints[i])),
                        filteredBreakpoints[i], "w")]

\* getFixedSrcset(sourceConfig)
getFixedSrcset(sourceConfig) ==
    [i \in 1..Len(DENSITY_SRCSET_MULTIPLIERS) |->
        SrcsetEntry(callImageLoader(sourceConfig.srcset,
                                    Some(sourceConfig.width[1] * DENSITY_SRCSET_MULTIPLIERS[i])),
                    DENSITY_SRCSET_MULTIPLIERS[i], "x")]

\* generateResponsiveSrcset with >= in the oversize test
generateResponsiveSrcset_InclusiveLimit(sourceConfig) ==
    LET width == sourceConfig.width[1]
        height == sourceConfig.height[1]
        oversizedImage ==
            width >= FIXED_SRCSET_WIDTH_LIMIT \/ height >= FIXED_SRCSET_HEIGHT_LIMIT
    IN  IF oversizedImage \/ imageLoader = "noop"
        THEN <<SrcsetEntry(callImageLoader(sourceConfig.srcset, Absent), 0, "")>>
        ELSE IF Truthy(sourceConfig.sizes)
        THEN getResponsiveSrcset(sourceConfig)
        ELSE getFixedSrcset(sourceConfig)

\* generateResponsiveSrcset with the sizes test before the oversize test
generateResponsiveSrcset_SizesFirst(sourceConfig) ==
    LET width == sourceConfig.width[1]
        height == sourceConfig.height[1]
        oversizedImage ==
            width > FIXED_SRCSET_WIDTH_LIMIT \/ height > FIXED_SRCSET_HEIGHT_LIMIT
    IN  IF Truthy(sourceConfig.sizes)
        THEN getResponsiveSrcset(sourceConfig)
        ELSE IF oversizedImage \/ imageLoader = "noop"
        THEN <<SrcsetEntry(callImageLoader(sourceConfig.srcset, Absent), 0, "")>>
        ELSE getFixedSrcset(sourceConfig)

\* generateResponsiveSrcset(sourceConfig)
generateResponsiveSrcset(sourceConfig) ==
    LET width == sourceConfig.width[1]
        height == sourceConfig.height[1]
        oversizedImage ==
            width > FIXED_SRCSET_WIDTH_LIMIT \/ height > FIXED_SRCSET_HEIGHT_LIMIT
    IN  IF oversizedImage \/ imageLoader = "noop"
        THEN <<SrcsetEntry(callImageLoader(sourceConfig.srcset, Absent), 0, "")>>
        ELSE IF Truthy(sourceConfig.sizes)
        THEN getResponsiveSrcset(sourceConfig)
        ELSE getFixedSrcset(sourceConfig)

\* generateSrcsetForSource(sourceConfig)
generateSrcsetForSource(sourceConfig) ==
    IF sourceConfig.width # Absent /\ sourceConfig.height # Absent
    THEN generateResponsiveSrcset(sourceConfig)
    ELSE <<SrcsetEntry(callImageLoader(sourceConfig.srcset, Absent), 0, "")>>

-----------------------------------------------------------------------------
(***************************************************************************)
(* NgOptimizedPicture: the DOM                                             *)
(***************************************************************************)
NoAttrs ==
    [srcset |-> Absent, media |-> Absent, type |-> Absent, sizes |-> Absent,
     marker |-> Absent]

\* <img>, with or without the ngSrc attribute, and a <source> of the template
ImgNode(ngSrc) == [tag |-> "img", id |-> <<2, 0>>, ngSrc |-> ngSrc, attrs |-> NoAttrs]
TemplateSource == [tag |-> "source", id |-> <<2, 1>>, ngSrc |-> FALSE, attrs |-> NoAttrs]

\* lines 306-324 without the media attribute
SourceAttrs_NoMedia(sourceConfig, index) ==
    [srcset |-> Some(generateSrcsetForSource(sourceConfig)),
     media |-> Absent,
     type |-> IF Truthy(sourceConfig.type) THEN sourceConfig.type ELSE Absent,
     sizes |-> IF Truthy(sourceConfig.sizes) THEN sourceConfig.sizes ELSE Absent,
     marker |-> Some(index)]

\* the attributes lines 306-324 set on the element made for sources[index]
SourceAttrs(sourceConfig, index) ==
    [srcset |-> Some(generateSrcsetForSource(sourceConfig)),
     media |-> IF Truthy(sourceConfig.media) THEN sourceConfig.media ELSE Absent,
     type |-> IF Truthy(sourceConfig.type) THEN sourceConfig.type ELSE Absent,
     sizes |-> IF Truthy(sourceConfig.sizes) THEN sourceConfig.sizes ELSE Absent,
     marker |-> Some(index)]

\* renderer.createElement('source') with those attributes; the elements of
\* one generation are numbered <<ep, index>>
SourceNode(ep, sourceConfig, index) ==
    [tag |-> "source", id |-> <<ep, index>>, ngSrc |-> FALSE,
     attrs |-> SourceAttrs(sourceConfig, index)]

\* position of pictureElement.querySelector('img[ngSrc]'), 0 when there is none
QueryImg(ch) ==
    LET hits == {i \in 1..Len(ch) : ch[i].tag = "img" /\ ch[i].ngSrc}
    IN  IF hits = {} THEN 0 ELSE CHOOSE i \in hits : \A j \in hits : i <= j

\* pictureElement.querySelectorAll('source[data-ng-picture-source]')
QueryGenerated(ch) ==
    LET Marked(n) == n.tag = "source" /\ n.attrs.marker # Absent
    IN  SelectSeq(ch, Marked)

\* removeChild for the first recorded node only
RemoveAll_OnlyFirst(ch, nodes) ==
    LET Stays(n) == nodes = <<>> \/ nodes[1].id # n.id
    IN  SelectSeq(ch, Stays)

\* renderer.removeChild(pictureElement, node) for every node of nodes
RemoveAll(ch, nodes) ==
    LET Stays(n) == \A i \in 1..Len(nodes) : nodes[i].id # n.id
    IN  SelectSeq(ch, Stays)

\* appendChild in place of insertBefore
InsertAllBefore_AtEnd(ch, nodes, at) ==
    ch \o nodes

\* renderer.insertBefore(pictureElement, node, ch[at]) for every node of nodes, in order
InsertAllBefore(ch, nodes, at) ==
    SubSeq(ch, 1, at - 1) \o nodes \o SubSeq(ch, at, Len(ch))

-----------------------------------------------------------------------------
(***************************************************************************)
(* NgOptimizedPicture: the effect scheduler                                *)
(*                                                                         *)
(* effect() of @angular/core: an effect runs once after creation and is    *)
(* scheduled again whenever a signal it read on its last run is set to a   *)
(* new value, by whoever sets it, the effect itself included.  Signals     *)
(* compare with Object.is, so setting a new array always counts.  The      *)
(* order in which waiting effects run is left open.                        *)
(*                                                                         *)
(* Effects 2 and 3 read the same three signals on every run, and an effect *)
(* that has not run yet is waiting anyway, so only the signals Effect 1    *)
(* read are kept in the state.                                             *)
(***************************************************************************)
Effects == {"A", "B", "C"}

\* the signals Effect 2 and Effect 3 read (lines 226-230, 238-242)
ReadsBC == {"img", "sources", "initialized"}

\* the signals effect e read on its last run
Deps(e) == IF e = "A" THEN depsA ELSE ReadsBC

\* the effects that read signal sig on their last run
Readers(sig) == {e \in Effects : sig \in Deps(e)}

\* the effects waiting after effect e ran, having read `reads` and then set `writes`
Reschedule(e, reads, writes) ==
    (dirty \ {e})
    \cup {o \in Effects \ {e} : writes \cap Deps(o) # {}}
    \cup (IF writes \cap reads # {} THEN {e} ELSE {})

NoRun == [effect |-> "none", outcome |-> "none", prev |-> "none"]

\* what the run of an effect found generated before it: nothing, elements made
\* from the sources value it reads, or elements made from another value
Previous ==
    IF generatedFrom = <<>> THEN "none"
    ELSE IF generatedFrom = sources THEN "same"
    ELSE "other"

-----------------------------------------------------------------------------
(***************************************************************************)
(* NgOptimizedPicture: the three effects                                   *)
(***************************************************************************)

\* the number createElement gives the next generation: elements made now are
\* not the elements made before
NewEpoch ==
    IF \E i \in 1..Len(children) : children[i].id[1] = 0 THEN 1 ELSE 0

\* validatePictureSetup without the tagName test of lines 257-263
validatePictureSetup_NoHostCheck(srcs) ==
    IF Len(srcs) = 0 THEN "sourcesError"
    ELSE "ok"

\* validatePictureSetup(sources): the error it throws, or "ok"
validatePictureSetup(srcs) ==
    IF hostTag # "PICTURE" THEN "hostError"
    ELSE IF Len(srcs) = 0 THEN "sourcesError"
    ELSE "ok"

\* cleanupSourceElements without the removeChild loop: only the signal is reset
cleanupSourceElements_KeepsNodes ==
    [children |-> children, generatedSources |-> <<>>]

\* cleanupSourceElements(): the children and generatedSources it leaves
cleanupSourceElements ==
    [children |-> RemoveAll(children, generatedSources), generatedSources |-> <<>>]

\* generateSourceElements without line 333: the new elements are not recorded
generateSourceElements_NotRecorded(srcs, ch, gs, ep) ==
    LET at == QueryImg(ch)
        newSources == [i \in 1..Len(srcs) |-> SourceNode(ep, srcs[i], i - 1)]
    IN  IF Len(srcs) = 0
        THEN [outcome |-> "empty", children |-> ch, generatedSources |-> gs]
        ELSE IF at = 0
        THEN [outcome |-> IF ngDevMode /\ initialized THEN "imgError" ELSE "noImg",
              children |-> ch, generatedSources |-> gs]
        ELSE [outcome |-> "generated",
              children |-> InsertAllBefore(ch, newSources, at),
              generatedSources |-> gs]

\* generateSourceElements(sources) on children ch, with generatedSources gs and
\* new elements numbered ep: how it ends and the children and generatedSources
\* it leaves
generateSourceElements(srcs, ch, gs, ep) ==
    LET at == QueryImg(ch)
        newSources == [i \in 1..Len(srcs) |-> SourceNode(ep, srcs[i], i - 1)]
    IN  IF Len(srcs) = 0
        THEN [outcome |-> "empty", children |-> ch, generatedSources |-> gs]
        ELSE IF at = 0
        THEN [outcome |-> IF ngDevMode /\ initialized THEN "imgError" ELSE "noImg",
              children |-> ch, generatedSources |-> gs]
        ELSE [outcome |-> "generated",
              children |-> InsertAllBefore(ch, newSources, at),
              generatedSources |-> newSources]

\* Effect 1 without the early return of lines 205-207
RunEffectA_NoEmptySkip ==
    LET sourcesValue == sources
        all == {"sources", "generatedSources", "initialized"}
        c == cleanupSourceElements
        g == generateSourceElements(sourcesValue, c.children, c.generatedSources, NewEpoch)
    IN  IF ngDevMode /\ validatePictureSetup(sourcesValue) # "ok"
        THEN [outcome |-> validatePictureSetup(sourcesValue), children |-> children,
              generatedSources |-> generatedSources, initialized |-> initialized,
              reads |-> {"sources"}, writes |-> {}]
        ELSE IF g.outcome = "imgError"
        THEN [outcome |-> "imgError", children |-> g.children,
              generatedSources |-> g.generatedSources, initialized |-> initialized,
              reads |-> all, writes |-> {"generatedSources"}]
        ELSE [outcome |-> g.outcome, children |-> g.children,
              generatedSources |-> g.generatedSources, initialized |-> TRUE,
              reads |-> all,
              writes |-> {"generatedSources"}
                         \cup (IF initialized THEN {} ELSE {"initialized"})]

\* the body of Effect 1 (lines 201-222) on the current state: how it ends,
\* what it leaves, the signals it read and the signals it set
RunEffectA ==
    LET sourcesValue == sources
        all == {"sources", "generatedSources", "initialized"}
        c == cleanupSourceElements
        g == generateSourceElements(sourcesValue, c.children, c.generatedSources, NewEpoch)
    IN  IF Len(sourcesValue) = 0
        THEN [outcome |-> "skipped", children |-> children,
              generatedSources |-> generatedSources, initialized |-> initialized,
              reads |-> {"sources"}, writes |-> {}]
        ELSE IF ngDevMode /\ validatePictureSetup(sourcesValue) # "ok"
        THEN [outcome |-> validatePictureSetup(sourcesValue), children |-> children,
              generatedSources |-> generatedSources, initialized |-> initialized,
              reads |-> {"sources"}, writes |-> {}]
        ELSE IF g.outcome = "imgError"
        THEN [outcome |-> "imgError", children |-> g.children,
              generatedSources |-> g.generatedSources, initialized |-> initialized,
              reads |-> all, writes |-> {"generatedSources"}]
        ELSE [outcome |-> g.outcome, children |-> g.children,
              generatedSources |-> g.generatedSources, initialized |-> TRUE,
              reads |-> all,
              writes |-> {"generatedSources"}
                         \cup (IF initialized THEN {} ELSE {"initialized"})]

Errors == {"hostError", "sourcesError", "imgError"}

\* Effect 1: validate and generate source elements
EffectA ==
    LET r == RunEffectA
    IN  /\ "A" \in dirty
        /\ children' = r.children
        /\ generatedSources' = r.generatedSources
        /\ initialized' = r.initialized
        /\ generatedFrom' = IF r.outcome = "generated" THEN sources
                            ELSE IF r.outcome \in {"noImg", "imgError"} THEN <<>>
                            ELSE generatedFrom
        /\ dirty' = Reschedule("A", r.reads, r.writes)
        /\ depsA' = r.reads
        /\ lastRun' = [effect |-> "A", outcome |-> r.outcome, prev |-> Previous]
        /\ calls' = <<>>
        /\ UNCHANGED <<sources, ngDevMode, ngServerMode, hostTag, imageLoader, breakpoints,
                       priority>>
        /\ UNCHANGED navVars

\* this.imgDirective()?.priority
ImgPriority == QueryImg(children) # 0 /\ priority

Call(kind, url, src, srcset, sizes) ==
    [kind |-> kind, url |-> url, src |-> src, srcset |-> srcset, sizes |-> sizes]

\* checkPreconnect(sources): the calls of checker.assertPreconnect
checkPreconnect(srcs) ==
    [i \in 1..Len(srcs) |->
        Call("assertPreconnect", callImageLoader(srcs[i].srcset, Absent), Some(srcs[i].srcset),
             Absent, Absent)]

\* createPreloadLinks(sources): the calls of preloadLinkCreator.createPreloadLinkTag
createPreloadLinks(srcs) ==
    [i \in 1..Len(srcs) |->
        Call("createPreloadLinkTag", callImageLoader(srcs[i].srcset, Absent), Absent,
             Some(generateSrcsetForSource(srcs[i])), srcs[i].sizes)]

EffectBC(e, active, made) ==
    /\ e \in dirty
    /\ calls' = IF active THEN made ELSE <<>>
    /\ dirty' = Reschedule(e, ReadsBC, {})
    /\ lastRun' = [effect |-> e, outcome |-> IF active THEN "called" ELSE "idle",
                   prev |-> Previous]
    /\ UNCHANGED <<sources, children, generatedSources, initialized, ngDevMode,
                   ngServerMode, hostTag, imageLoader, breakpoints, priority, depsA,
                   generatedFrom>>
    /\ UNCHANGED navVars

\* Effect 2 without the development mode test of line 231
EffectB_AnyMode ==
    EffectBC("B", initialized /\ ImgPriority, checkPreconnect(sources))

\* Effect 2: preconnect checking for priority images
EffectB ==
    EffectBC("B", initialized /\ ImgPriority /\ ngDevMode, checkPreconnect(sources))

\* Effect 3 without the priority test of line 244
EffectC_AnyPriority ==
    EffectBC("C", initialized /\ ngServerMode, createPreloadLinks(sources))

\* Effect 3: SSR preload link generation
EffectC ==
    EffectBC("C", initialized /\ ngServerMode /\ ImgPriority, createPreloadLinks(sources))

\* a binding of [sources] that starts the directive over
SetSources_ResetsInitialized(s) ==
    /\ sources' = s
    /\ initialized' = FALSE
    /\ dirty' = dirty \cup Readers("sources")
    /\ lastRun' = NoRun
    /\ calls' = <<>>
    /\ UNCHANGED <<children, generatedSources, ngDevMode, ngServerMode,
                   hostTag, imageLoader, breakpoints, priority, depsA, generatedFrom>>
    /\ UNCHANGED navVars

\* the template binds a new array to [sources]
SetSources(s) ==
    /\ sources' = s
    /\ dirty' = dirty \cup Readers("sources")
    /\ lastRun' = NoRun
    /\ calls' = <<>>
    /\ UNCHANGED <<children, generatedSources, initialized, ngDevMode, ngServerMode,
                   hostTag, imageLoader, breakpoints, priority, depsA, generatedFrom>>
    /\ UNCHANGED navVars

\* the template renders or removes the <img ngSrc> child; contentChild follows
SetImg ==
    LET at == QueryImg(children)
    IN  /\ children' = IF at = 0 THEN Append(children, ImgNode(TRUE))
                       ELSE SubSeq(children, 1, at - 1) \o SubSeq(children, at + 1, Len(children))
        /\ dirty' = dirty \cup Readers("img")
        /\ lastRun' = NoRun
        /\ calls' = <<>>
        /\ UNCHANGED <<sources, generatedSources, initialized, ngDevMode, ngServerMode,
                       hostTag, imageLoader, breakpoints, priority, depsA, generatedFrom>>
        /\ UNCHANGED navVars

\* the adapter is not instantiated
NavIdle ==
    /\ location = [pq |-> "/a", hash |-> ""]
    /\ navEntryHash = ""
    /\ fdFragment = NULL
    /\ textFragmentHash = NULL
    /\ initialPathQuery = "/a"
    /\ skipInitialReplace = FALSE
    /\ last = NoCall
    /\ nOps = 0
    /\ nReplace = 0
    /\ nSuppressed = 0

\* the children the template gives the host element
Layouts ==
    { <<ImgNode(FALSE)>>, <<ImgNode(TRUE)>>, <<TemplateSource, ImgNode(TRUE)>> }

\* breakpoints as injected with IMAGE_CONFIG
InjectedBreakpoints == <<1024, 320, 640>>

\* the directive after its constructor and the first binding of [sources]
PicInit ==
    /\ sources \in SourceSeqs
    /\ children \in Layouts
    /\ generatedSources = <<>>
    /\ initialized = FALSE
    /\ ngDevMode \in BOOLEAN
    /\ ngServerMode \in BOOLEAN
    /\ hostTag \in {"PICTURE", "picture"}
    /\ imageLoader = "custom"
    /\ breakpoints = processConfig(InjectedBreakpoints)
    /\ priority \in BOOLEAN
    /\ dirty = Effects
    /\ depsA = {}
    /\ lastRun = NoRun
    /\ generatedFrom = <<>>
    /\ calls = <<>>

PicNext ==
    \/ EffectA
    \/ EffectB
    \/ EffectC
    \/ \E s \in SourceSeqs : SetSources(s)
    \/ SetImg

PicSpecInit == PicInit /\ NavIdle

PicSpec == PicSpecInit /\ [][PicNext]_vars

\* the initial setup: the effects run until none is waiting, no input changes
PicSetupNext ==
    \/ EffectA
    \/ EffectB
    \/ EffectC

PicSetupSpec == PicSpecInit /\ [][PicSetupNext]_vars

-----------------------------------------------------------------------------
(***************************************************************************)
(* Properties of NgOptimizedPicture (checked under PicSpec, C10 under      *)
(* PicSetupSpec).  lastRun.effect = "A" holds exactly in the state an      *)
(* Effect 1 run leaves, where sources is still the value the run read.     *)
(***************************************************************************)

AfterEffectA == lastRun.effect = "A"
HasImg(ch) == QueryImg(ch) # 0

\* the children without the identity of the elements
Content(ch) ==
    [i \in 1..Len(ch) |-> [tag |-> ch[i].tag, ngSrc |-> ch[i].ngSrc, attrs |-> ch[i].attrs]]

\* the generated children of ch are one per source of srcs, in order, each
\* with its index as marker and the srcset derived from its source
OnePerSource(ch, srcs) ==
    LET gen == QueryGenerated(ch)
    IN  /\ Len(gen) = Len(srcs)
        /\ \A i \in 1..Len(gen) :
              /\ gen[i].attrs.marker = Some(i - 1)
              /\ gen[i].attrs.srcset = Some(generateSrcsetForSource(srcs[i]))

\* every generated child of ch stands before the img[ngSrc] child
AllBeforeImg(ch) ==
    \A i \in 1..Len(ch) :
        (ch[i].tag = "source" /\ ch[i].attrs.marker # Absent) => i < QueryImg(ch)

\* no element of nodes is a child in ch
NoneLeft(ch, nodes) ==
    \A i \in 1..Len(nodes) : \A j \in 1..Len(ch) : ch[j].id # nodes[i].id

\* C6: after Effect A ran on a non-empty sources value with the img[ngSrc]
\* child present, the picture element holds exactly one generated source per
\* input source, in input order, marked 0..n-1, all before the img.
C6_OneNodePerSourceInOrder ==
    (AfterEffectA /\ Len(sources) > 0 /\ hostTag = "PICTURE" /\ HasImg(children))
    => (OnePerSource(children, sources) /\ AllBeforeImg(children))

\* C6 witness: Effect A ran on two different sources and left two generated
\* elements before the img.
C6_Witness ==
    /\ AfterEffectA
    /\ hostTag = "PICTURE"
    /\ Len(sources) = 2
    /\ sources[1] # sources[2]
    /\ HasImg(children)
    /\ Len(QueryGenerated(children)) = 2

\* C7: a run of Effect A on the sources value the current elements were
\* generated from (img[ngSrc] child in place, as in C6) leaves the generated
\* children as the first run left them: len(sources) of them, same order,
\* same attributes, no duplicate.
C7_RerunLeavesChildren ==
    [][(EffectA /\ Len(sources) > 0 /\ generatedFrom = sources /\ HasImg(children))
        => /\ Content(children') = Content(children)
           /\ OnePerSource(children', sources)]_vars

\* C7 witness: Effect A ran again on the value its two elements came from.
C7_Witness ==
    /\ AfterEffectA
    /\ lastRun.prev = "same"
    /\ lastRun.outcome = "generated"
    /\ Len(sources) = 2
    /\ Len(QueryGenerated(children)) = 2

\* C8: when Effect A runs on a non-empty sources value S2 while the elements
\* of another non-empty value S1 are in place, none of S1's elements is left
\* and (img[ngSrc] child in place, as in C6) the picture element holds exactly
\* len(S2) generated elements, all derived from S2.
C8_ChangeReplacesAll ==
    [][(EffectA /\ Len(sources) > 0 /\ generatedFrom # <<>> /\ generatedFrom # sources)
        => /\ NoneLeft(children', generatedSources)
           /\ HasImg(children) => OnePerSource(children', sources)]_vars

\* C8 witness: Effect A replaced the elements of another sources value by two
\* new ones.
C8_Witness ==
    /\ AfterEffectA
    /\ lastRun.prev = "other"
    /\ lastRun.outcome = "generated"
    /\ Len(sources) = 2
    /\ Len(QueryGenerated(children)) = 2

\* C9: a run of Effect A on an empty sources value raises no error and
\* leaves the children, generatedSources and initialized untouched; while no
\* non-empty value has been generated from, there is no generated element.
C9_EmptySourcesSkip ==
    /\ [][(EffectA /\ Len(sources) = 0)
            => /\ UNCHANGED <<children, generatedSources, initialized>>
               /\ lastRun'.outcome \notin Errors]_vars
    /\ [](generatedFrom = <<>> => QueryGenerated(children) = <<>>)

\* C9 witness: Effect A ran on an empty value while the elements generated
\* for an earlier value were in place, and they still are.
C9_Witness ==
    /\ AfterEffectA
    /\ Len(sources) = 0
    /\ lastRun.prev = "other"
    /\ Len(QueryGenerated(children)) = 2
    /\ generatedSources = QueryGenerated(children)

\* C10: in development mode, with a non-empty sources value and no img[ngSrc]
\* child, no effect run of the initial setup raises an error and no source
\* element is generated.
C10_MissingImgTolerated ==
    (ngDevMode /\ hostTag = "PICTURE" /\ Len(sources) > 0 /\ ~HasImg(children))
    => (lastRun.outcome \notin Errors /\ QueryGenerated(children) = <<>>)

\* C11: in development mode Effect A raises the missing-img error only after
\* an earlier run found the img[ngSrc] child and generated elements.  With no
\* input change the children are only changed by Effect A, so a picture that
\* has no img[ngSrc] child never had a run that found one: no run of Effect A
\* on it ends with the error.
C11_MissingImgErrorOnlyAfterSuccess ==
    [][(EffectA /\ ngDevMode /\ ~HasImg(children))
        => lastRun'.outcome # "imgError"]_vars

-----------------------------------------------------------------------------
(***************************************************************************)
(* The srcset derivation on one source at a time: the directive is set up  *)
(* with a single source drawn from width, height and sizes combinations    *)
(* around the limits, with either loader and with breakpoints injected in  *)
(* several orders; Effect 1 writes the derived srcset on the generated     *)
(* element and Effect 3 hands it to the preload link creator.              *)
(***************************************************************************)

\* width and height of a source: absent, one of them, inside, on and over
\* the limits
SrcsetDims ==
    { <<Absent, Absent>>, <<Some(800), Absent>>, <<Absent, Some(600)>>,
      <<Some(800), Some(600)>>, <<Some(1920), Some(1080)>>, <<Some(1921), Some(1080)>>,
      <<Some(1920), Some(1081)>>, <<Some(4000), Some(3000)>> }

SrcsetSizes == {Absent, Some(""), Some("100vw"), Some(" 100vw "), Some("50vw")}

\* media and type of a source: absent, empty and given
SrcsetMedia == {Absent, Some(""), Some("(min-width: 800px)")}
SrcsetTypes == {Absent, Some(""), Some("image/webp")}

SrcsetPool ==
    { PictureSource("hero.jpg", Absent, Absent, sz, d[1], d[2]) :
        sz \in SrcsetSizes, d \in SrcsetDims }
    \cup { PictureSource("hero.jpg", m, t, Absent, Some(800), Some(600)) :
             m \in SrcsetMedia, t \in SrcsetTypes }

\* the orders the breakpoints are injected in
InjectedOrders == { InjectedBreakpoints, <<320, 640, 1024>>, <<640, 768, 1024, 1920>> }

SrcsetInit ==
    /\ \E c \in SrcsetPool : sources = <<c>>
    /\ children = <<ImgNode(TRUE)>>
    /\ generatedSources = <<>>
    /\ initialized = FALSE
    /\ ngDevMode = FALSE
    /\ ngServerMode = TRUE
    /\ hostTag = "PICTURE"
    /\ imageLoader \in {"noop", "custom"}
    /\ \E injected \in InjectedOrders : breakpoints = processConfig(injected)
    /\ priority = TRUE
    /\ dirty = Effects
    /\ depsA = {}
    /\ lastRun = NoRun
    /\ generatedFrom = <<>>
    /\ calls = <<>>

SrcsetSpecInit == SrcsetInit /\ NavIdle

SrcsetSpec == SrcsetSpecInit /\ [][PicSetupNext]_vars

\* Effect 1 has generated the element of the one source
Derived == generatedSources # <<>>

\* the srcset attribute of that element
DerivedSrcset == generatedSources[1].attrs.srcset[1]

\* both dimensions of source c are given
BothDims(c) == c.width # Absent /\ c.height # Absent

\* C12: with a loader other than the no-op loader, a source with width
\* w <= 1920, height h <= 1080 and no sizes gets the srcset
\* "u(w) 1x, u(2w) 2x", u(n) being the loader's url for width n.
C12_FixedDensitySrcset ==
    LET c == sources[1]
        u(n) == [loader |-> "custom", src |-> c.srcset, width |-> Some(n)]
    IN  (/\ Derived
         /\ imageLoader # "noop"
         /\ BothDims(c)
         /\ c.sizes = Absent
         /\ c.width[1] <= 1920
         /\ c.height[1] <= 1080)
        => DerivedSrcset = << [url |-> u(c.width[1]), n |-> 1, unit |-> "x"],
                              [url |-> u(2 * c.width[1]), n |-> 2, unit |-> "x"] >>

\* C12 witness: the source on the limits, 1920x1080 without sizes, got the
\* entries for 1920 and 3840.
C12_Witness ==
    /\ Derived
    /\ imageLoader = "custom"
    /\ sources[1].width = Some(1920)
    /\ sources[1].height = Some(1080)
    /\ sources[1].sizes = Absent
    /\ Len(DerivedSrcset) = 2
    /\ DerivedSrcset[1].url.width = Some(1920)
    /\ DerivedSrcset[2].url.width = Some(3840)

\* C13: a source with both dimensions whose width is over 1920 or whose
\* height is over 1080, or any source with both dimensions under the no-op
\* loader, gets the single entry loader({src: srcset}) without descriptor,
\* with or without sizes.
C13_OversizedOrNoopSingleEntry ==
    LET c == sources[1]
    IN  (/\ Derived
         /\ BothDims(c)
         /\ (c.width[1] > 1920 \/ c.height[1] > 1080 \/ imageLoader = "noop"))
        => DerivedSrcset =
             << [url |-> [loader |-> imageLoader, src |-> c.srcset, width |-> Absent],
                 n |-> 0, unit |-> ""] >>

\* C13 witness: a 4000x3000 source with sizes under a transforming loader got
\* one entry.
C13_Witness ==
    /\ Derived
    /\ imageLoader = "custom"
    /\ sources[1].width = Some(4000)
    /\ sources[1].height = Some(3000)
    /\ sources[1].sizes = Some("100vw")
    /\ Len(DerivedSrcset) = 1

\* C14: with a loader other than the no-op loader, a source inside the limits
\* with a (non-empty) sizes gets one entry "u(bp) bpw" per configured
\* breakpoint, in ascending order of bp; the breakpoints below 640 are left
\* out exactly when sizes trimmed is "100vw".
C14_BreakpointSrcset ==
    LET c == sources[1]
        u(n) == [loader |-> "custom", src |-> c.srcset, width |-> Some(n)]
        configured == {breakpoints[i] : i \in 1..Len(breakpoints)}
        kept == IF Trim(c.sizes[1]) = "100vw" THEN {bp \in configured : bp >= 640}
                ELSE configured
        d == DerivedSrcset
    IN  (/\ Derived
         /\ imageLoader # "noop"
         /\ BothDims(c)
         /\ Truthy(c.sizes)
         /\ c.width[1] <= 1920
         /\ c.height[1] <= 1080)
        => /\ Len(d) = Cardinality(kept)
           /\ \A i \in 1..Len(d) :
                 /\ d[i].n \in kept
                 /\ d[i] = [url |-> u(d[i].n), n |-> d[i].n, unit |-> "w"]
           /\ \A i \in 1..Len(d), j \in 1..Len(d) : i < j => d[i].n < d[j].n
           /\ \E injected \in InjectedOrders :
                 configured = {injected[i] : i \in 1..Len(injected)}

\* C14 witness: breakpoints injected as 1024, 320, 640 and sizes " 100vw ":
\* the entries are those of 640 and 1024, in that order.
C14_Witness ==
    /\ Derived
    /\ imageLoader = "custom"
    /\ breakpoints = <<320, 640, 1024>>
    /\ sources[1].sizes = Some(" 100vw ")
    /\ sources[1].width = Some(1920)
    /\ sources[1].height = Some(1080)
    /\ Len(DerivedSrcset) = 2
    /\ DerivedSrcset[1].n = 640
    /\ DerivedSrcset[2].n = 1024

\* C15: the single-entry first branch is taken only when width and height
\* are both absent; a source with one of them goes on to the later branches:
\* single entry when oversized or under the no-op loader, else the breakpoint
\* entries when sizes is given, else the 1x and 2x entries of its width.
C15_FirstBranchOnlyWhenBothAbsent ==
    LET c == sources[1]
        single == << [url |-> [loader |-> imageLoader, src |-> c.srcset, width |-> Absent],
                      n |-> 0, unit |-> ""] >>
        over == \/ (c.width # Absent /\ c.width[1] > 1920)
                \/ (c.height # Absent /\ c.height[1] > 1080)
    IN  Derived =>
          /\ (c.width = Absent /\ c.height = Absent) => DerivedSrcset = single
          /\ (c.width # Absent \/ c.height # Absent) =>
                IF over \/ imageLoader = "noop" THEN DerivedSrcset = single
                ELSE IF Truthy(c.sizes) THEN DerivedSrcset = getResponsiveSrcset(c)
                ELSE /\ Len(DerivedSrcset) = 2
                     /\ DerivedSrcset[1].unit = "x"
                     /\ DerivedSrcset[2].unit = "x"

-----------------------------------------------------------------------------
(***************************************************************************)
(* Properties of Effect 2 and Effect 3 (checked under PicSpec).  calls is  *)
(* what the run of an effect handed to its collaborator.                   *)
(***************************************************************************)

\* loader({src: srcset}) of source c, computed without a width
BaseUrl(c) == [loader |-> imageLoader, src |-> c.srcset, width |-> Absent]

\* C16: a run of Effect B calls the preconnect checker exactly when
\* initialized is true, the img reports priority and development mode is on:
\* then once per source, in order, with (loader({src: srcset}), srcset); in
\* every other state the run calls nothing.
C16_PreconnectGate ==
    [][EffectB =>
        calls' = IF initialized /\ ImgPriority /\ ngDevMode
                 THEN [i \in 1..Len(sources) |->
                          [kind |-> "assertPreconnect", url |-> BaseUrl(sources[i]),
                           src |-> Some(sources[i].srcset), srcset |-> Absent,
                           sizes |-> Absent]]
                 ELSE <<>>]_vars

\* C16 witness: Effect B ran on two different sources and called the checker
\* for each, in order.
C16_Witness ==
    /\ lastRun.effect = "B"
    /\ initialized /\ ImgPriority /\ ngDevMode
    /\ Len(sources) = 2
    /\ sources[1] # sources[2]
    /\ Len(calls) = 2
    /\ calls[1].src = Some(sources[1].srcset)
    /\ calls[2].src = Some(sources[2].srcset)

\* C17: a run of Effect C calls the preload link creator exactly when
\* initialized is true, the code runs on the server and the img reports
\* priority: then once per source, in order, with (loader({src: srcset}), the
\* derived srcset of the source, its sizes); otherwise no link is created.
C17_PreloadGate ==
    [][EffectC =>
        calls' = IF initialized /\ ngServerMode /\ ImgPriority
                 THEN [i \in 1..Len(sources) |->
                          [kind |-> "createPreloadLinkTag", url |-> BaseUrl(sources[i]),
                           src |-> Absent,
                           srcset |-> Some(generateSrcsetForSource(sources[i])),
                           sizes |-> sources[i].sizes]]
                 ELSE <<>>]_vars

\* C17 witness: Effect C ran on the server for a priority img and created the
\* links of two different sources, one of them with sizes.
C17_Witness ==
    /\ lastRun.effect = "C"
    /\ initialized /\ ngServerMode /\ ImgPriority
    /\ Len(sources) = 2
    /\ sources[1] # sources[2]
    /\ Len(calls) = 2
    /\ calls[1].kind = "createPreloadLinkTag"
    /\ calls[1].srcset = Some(generateSrcsetForSource(sources[1]))
    /\ \E i \in 1..2 : calls[i].sizes = Some("100vw")

\* C18: Effect B and Effect C never act on a sources value Effect A has not
\* regenerated for: whenever a run of B or C calls its collaborator, the
\* generated elements in place were made from the sources value it reads.
C18_RegenerationBeforeSideEffects ==
    [][((EffectB \/ EffectC) /\ calls' # <<>>) => generatedFrom = sources]_vars

\* C19: in production mode a run of Effect A on a host that is not a picture
\* element, or after initialization on a picture without img[ngSrc] child,
\* raises no error and changes neither the children nor generatedSources.
C19_ProductionNoOp ==
    [][(/\ EffectA
        /\ ~ngDevMode
        /\ Len(sources) > 0
        /\ (hostTag # "PICTURE" \/ (initialized /\ ~HasImg(children))))
        => /\ lastRun'.outcome \notin Errors
           /\ UNCHANGED <<children, generatedSources>>]_vars

-----------------------------------------------------------------------------
-----------------------------------------------------------------------------
(***************************************************************************)
(* historyGo: the default of the base class PlatformLocation and the       *)
(* override of BrowserPlatformLocation.  The argument is Absent when the   *)
(* caller passes none.  last records the call: the number handed to        *)
(* history.go, or the message of the Error thrown.                         *)
(***************************************************************************)

\* the arguments historyGo is called with
GoArgs == {Absent, Some(0 - 1), Some(0), Some(2)}

\* PlatformLocation.historyGo returning without a throw
PlatformLocation_historyGo_Silent(relativePosition) ==
    /\ nOps < MaxOps
    /\ last' = [op |-> "baseGo", arg |-> relativePosition, native |-> FALSE,
                go |-> Absent, error |-> Absent]
    /\ nOps' = nOps + 1
    /\ UNCHANGED <<location, navEntryHash, fdFragment, textFragmentHash, initialPathQuery,
                   skipInitialReplace, nReplace, nSuppressed>>
    /\ UNCHANGED picVars

\* PlatformLocation.historyGo(relativePosition) (lines 67-69)
PlatformLocation_historyGo(relativePosition) ==
    /\ nOps < MaxOps
    /\ last' = [op |-> "baseGo", arg |-> relativePosition, native |-> FALSE,
                go |-> Absent,
                error |-> Some(IF ngDevMode THEN "Not implemented" ELSE "")]
    /\ nOps' = nOps + 1
    /\ UNCHANGED <<location, navEntryHash, fdFragment, textFragmentHash, initialPathQuery,
                   skipInitialReplace, nReplace, nSuppressed>>
    /\ UNCHANGED picVars

\* BrowserPlatformLocation.historyGo(relativePosition = 0) (lines 211-213);
\* the traversal history.go starts is the browser's and is not followed
historyGo(relativePosition) ==
    /\ nOps < MaxOps
    /\ last' = [op |-> "go", arg |-> relativePosition, native |-> TRUE,
                go |-> IF relativePosition = Absent THEN Some(0) ELSE relativePosition,
                error |-> Absent]
    /\ nOps' = nOps + 1
    /\ UNCHANGED <<location, navEntryHash, fdFragment, textFragmentHash, initialPathQuery,
                   skipInitialReplace, nReplace, nSuppressed>>
    /\ UNCHANGED picVars

\* the adapter after construction, in development or production mode
HistoryGoInit ==
    /\ NavInit
    /\ sources = <<>>
    /\ children = <<>>
    /\ generatedSources = <<>>
    /\ initialized = FALSE
    /\ ngDevMode \in BOOLEAN
    /\ ngServerMode = FALSE
    /\ hostTag = "PICTURE"
    /\ imageLoader = "noop"
    /\ breakpoints = <<>>
    /\ priority = FALSE
    /\ dirty = {}
    /\ depsA = {}
    /\ lastRun = <<>>
    /\ generatedFrom = <<>>
    /\ calls = <<>>

HistoryGoNext ==
    \/ \E relativePosition \in GoArgs : PlatformLocation_historyGo(relativePosition)
    \/ \E relativePosition \in GoArgs : historyGo(relativePosition)

HistoryGoSpec == HistoryGoInit /\ [][HistoryGoNext]_vars

\* C21 as stated: historyGo of the base class raises an error that says
\* "not implemented", in every mode.
C21_BaseHistoryGoSaysNotImplemented ==
    last.op = "baseGo" => last.error = Some("Not implemented")

\* C21 amended: historyGo of the base class raises an Error in every mode and
\* never returns silently; the Error says "Not implemented" in development
\* mode and has an empty message in production mode.  historyGo of
\* BrowserPlatformLocation passes its argument to history.go, 0 when it is
\* given none.
C21_BaseHistoryGoThrows ==
    /\ last.op = "baseGo" =>
          /\ last.error # Absent
          /\ ~last.native
          /\ last.error = Some(IF ngDevMode THEN "Not implemented" ELSE "")
    /\ last.op = "go" =>
          /\ last.error = Absent
          /\ last.native
          /\ last.go = IF last.arg = Absent THEN Some(0) ELSE last.arg

\* C21 witness: in production mode the base class threw an Error with an
\* empty message.
C21_Witness ==
    /\ last.op = "baseGo"
    /\ ~ngDevMode
    /\ last.error = Some("")

-----------------------------------------------------------------------------
(***************************************************************************)
(* Further properties of BrowserPlatformLocation (checked under NavSpec)   *)
(***************************************************************************)

\* the last call was given null, undefined or ''
NullOrEmptyArg == last.url.kind = "null" \/ last.url = EmptyUrl

\* C22: every pushState call reaches native history.pushState, with the url
\* ensureTextFragment returns for its argument, and leaves skipInitialReplace
\* as it was.
C22_PushNeverSuppressed ==
    [][\A url \in UrlArgs :
          pushState(url)
          => /\ last'.native
             /\ last'.nativeUrl = OrEmpty(ensureTextFragment(url, currentPathQuery).ret)
             /\ skipInitialReplace' = skipInitialReplace]_vars

\* C22 witness: after two pushState calls the latch is still armed.
C22_Witness ==
    /\ last.op = "push"
    /\ last.native
    /\ nOps = 2
    /\ nReplace = 0
    /\ skipInitialReplace

\* C23: right after construction skipInitialReplace is true exactly when a
\* fragment is tracked, and the tracked fragment is the first one found in
\* the url's hash, the navigation entry's url, the fragment directive object.
C23_ConstructedState ==
    nOps = 0
    => /\ skipInitialReplace = (textFragmentHash # NULL)
       /\ textFragmentHash =
             IF IncludesDirective(location.hash) THEN location.hash
             ELSE IF IncludesDirective(navEntryHash) THEN navEntryHash
             ELSE fdFragment

\* C23 witness: constructed on a url without directive, with a directive in
\* the navigation entry and one in the fragment directive object: the
\* navigation entry's is tracked.
C23_Witness ==
    /\ nOps = 0
    /\ ~IncludesDirective(location.hash)
    /\ navEntryHash = HashNav
    /\ fdFragment = HashFd
    /\ textFragmentHash = HashNav
    /\ skipInitialReplace

\* C24: a call with a tracked fragment and a null or empty url: when the
\* live hash contains the directive, tracking is cleared and the normalized
\* url is null; otherwise tracking is kept and the normalized url is the
\* current path+query followed by the tracked fragment.
C24_NullUrlNormalization ==
    (Called /\ last.tfBefore # NULL /\ NullOrEmptyArg)
    => IF IncludesDirective(last.locBefore.hash)
       THEN textFragmentHash = NULL /\ last.normalized = NullUrl
       ELSE /\ textFragmentHash = last.tfBefore
            /\ last.normalized = StrUrl("", last.locBefore.pq, last.tfBefore)

\* C24 witness, first case: the fragment came from the url's own hash and the
\* call with null cleared the tracking.
C24_Witness ==
    /\ Called
    /\ last.tfBefore # NULL
    /\ last.url = NullUrl
    /\ IncludesDirective(last.locBefore.hash)
    /\ textFragmentHash = NULL
    /\ last.normalized = NullUrl

\* C25: a call with a tracked fragment and a non-empty url: when the url
\* resolves to the current path+query and has no directive of its own, the
\* normalized url is the absolute resolved url with the tracked fragment as
\* hash and tracking is kept; in every other case tracking is cleared and the
\* normalized url is the url as given.
C25_UrlNormalization ==
    LET resolved == NewURL(last.url, last.locBefore)
    IN  (Called /\ last.tfBefore # NULL /\ ~NullOrEmptyArg)
        => IF /\ resolved.ok
              /\ resolved.pq = last.locBefore.pq
              /\ ~IncludesDirective(resolved.hash)
           THEN /\ last.normalized = StrUrl(Origin, resolved.pq, last.tfBefore)
                /\ textFragmentHash = last.tfBefore
           ELSE /\ last.normalized = last.url
                /\ textFragmentHash = NULL

\* C25 witness: a relative url with the current path+query and a hash of its
\* own was normalized to the absolute url ending in the tracked fragment.
C25_Witness ==
    /\ Called
    /\ last.tfBefore # NULL
    /\ last.url.kind = "str"
    /\ last.url.origin = ""
    /\ last.url.pq = last.locBefore.pq
    /\ last.url.hash = "#sec"
    /\ last.normalized = StrUrl(Origin, last.locBefore.pq, last.tfBefore)
    /\ textFragmentHash = last.tfBefore

-----------------------------------------------------------------------------
(***************************************************************************)
(* Scheduling of the effects (checked under PicSpec; C27 under the setup   *)
(* with every waiting effect eventually run)                               *)
(***************************************************************************)

\* the initial setup in which a waiting effect is eventually run
PicSetupFairSpec ==
    /\ PicSpecInit
    /\ [][PicSetupNext]_vars
    /\ WF_vars(EffectA)
    /\ WF_vars(EffectB)
    /\ WF_vars(EffectC)

\* C26: Effect A does not re-trigger itself: in the state a run of Effect A
\* leaves, Effect A is not waiting again.
C26_NoSelfTrigger ==
    AfterEffectA => "A" \notin dirty

\* C27: with no further input change, and every waiting effect eventually
\* run, a state with no effect waiting is reached; stated for the directive
\* on a picture element that has its img[ngSrc] child, where every run of
\* Effect A changes the children.
C27_Quiescence ==
    (hostTag = "PICTURE" /\ HasImg(children)) => <>(dirty = {})

-----------------------------------------------------------------------------
(***************************************************************************)
(* State of NgOptimizedPicture between effect runs (checked under PicSpec, *)
(* C30 under SrcsetSpec)                                                   *)
(***************************************************************************)

\* C28: between effect runs the children that carry the
\* data-ng-picture-source marker are exactly the elements recorded in
\* generatedSources, in the same order, also after a run that threw or that
\* returned because the img[ngSrc] child is missing.
C28_GeneratedAreRecorded ==
    QueryGenerated(children) = generatedSources

\* C28 witness: a run of Effect A found the elements of an earlier generation
\* and no img[ngSrc] child: it left neither children with the marker nor
\* recorded elements.
C28_Witness ==
    /\ AfterEffectA
    /\ lastRun.outcome \in {"noImg", "imgError"}
    /\ lastRun.prev # "none"
    /\ generatedSources = <<>>
    /\ QueryGenerated(children) = <<>>

\* C29: initialized never goes from true to false; it changes only in a run
\* of Effect A on a non-empty sources value that ends without error, and it
\* is true after every such run.
C29_InitializedLatch ==
    [][/\ initialized => initialized'
       /\ initialized' # initialized
            => (EffectA /\ Len(sources) > 0 /\ lastRun'.outcome \notin Errors)
       /\ (EffectA /\ Len(sources) > 0 /\ lastRun'.outcome \notin Errors)
            => initialized']_vars

\* C29 witness: initialized is still true after the sources value was
\* replaced and Effect A ended with an error.
C29_Witness ==
    /\ initialized
    /\ AfterEffectA
    /\ lastRun.outcome \in Errors
    /\ lastRun.prev = "other"

\* C30: the generated element carries srcset and the index marker, and it
\* carries media, type and sizes, with the value of the source, exactly when
\* the source gives the field (a non-empty string); an absent field sets no
\* attribute.
C30_AttributesFollowSource ==
    Derived =>
        LET c == sources[1]
            a == generatedSources[1].attrs
            Given(f) == IF Truthy(f) THEN f ELSE Absent
        IN  /\ a.srcset # Absent
            /\ a.marker = Some(0)
            /\ a.media = Given(c.media)
            /\ a.type = Given(c.type)
            /\ a.sizes = Given(c.sizes)

\* C30 witness: the element of a source with media and no type or sizes has
\* the media attribute and neither of the others.
C30_Witness ==
    /\ Derived
    /\ sources[1].media = Some("(min-width: 800px)")
    /\ sources[1].type = Absent
    /\ generatedSources[1].attrs.media = Some("(min-width: 800px)")
    /\ generatedSources[1].attrs.type = Absent
    /\ generatedSources[1].attrs.sizes = Absent
    /\ generatedSources[1].attrs.srcset # Absent

-----------------------------------------------------------------------------
(***************************************************************************)
(* The suppressed replaceState and the splice (checked under NavSpec)      *)
(***************************************************************************)

\* C31 as stated: a suppressed replaceState call reaches no native method
\* and leaves textFragmentHash with the value it had before the call.
C31_SuppressedKeepsTracking ==
    Suppressed
    => /\ ~last.native
       /\ location = last.locBefore
       /\ textFragmentHash = last.tfBefore

\* C31 amended: a suppressed replaceState call reaches no native method,
\* leaves the location as it was and consumes the latch; textFragmentHash is
\* unchanged or cleared, never set to another fragment: the normalization
\* that runs before the skip test clears it when the url is null or empty and
\* the live hash contains the directive, and when it hands a non-empty url
\* back unmodified.
C31_SuppressedFrame ==
    Suppressed
    => /\ ~last.native
       /\ location = last.locBefore
       /\ ~skipInitialReplace
       /\ textFragmentHash =
             IF /\ last.tfBefore # NULL
                /\ (NullOrEmptyArg => IncludesDirective(last.locBefore.hash))
             THEN NULL
             ELSE last.tfBefore

\* C31 witness: a suppressed replaceState(null) on a url whose hash carries
\* the directive: the tracking was cleared by the suppressed call.
C31_Witness ==
    /\ Suppressed
    /\ last.url = NullUrl
    /\ last.tfBefore # NULL
    /\ IncludesDirective(last.locBefore.hash)
    /\ textFragmentHash = NULL
    /\ location = last.locBefore

\* C32: a call with a tracked fragment and a url that has the current
\* path+query and a hash of its own without directive: the normalized url,
\* and the url the native method gets, has the tracked fragment as its whole
\* hash, and the fragment stays tracked for the next such call.
C32_SpliceReplacesOwnHash ==
    (/\ Called
     /\ last.tfBefore # NULL
     /\ last.url.kind = "str"
     /\ last.url.hash = "#sec"
     /\ NewURL(last.url, last.locBefore).pq = last.locBefore.pq)
    => /\ last.normalized.hash = last.tfBefore
       /\ last.native => last.nativeUrl.hash = last.tfBefore
       /\ textFragmentHash = last.tfBefore

\* C32 witness: the second call in a row with such a url reached the native
\* method with the tracked fragment as hash.
C32_Witness ==
    /\ nOps = 2
    /\ last.tfBefore # NULL
    /\ last.url.kind = "str"
    /\ last.url.hash = "#sec"
    /\ last.url.pq = last.locBefore.pq
    /\ last.locBefore.hash = last.tfBefore
    /\ last.native
    /\ last.nativeUrl.hash = last.tfBefore
    /\ textFragmentHash = last.tfBefore

-----------------------------------------------------------------------------
\* C33 (checked under PicSpec): in development mode a run of Effect A on a
\* non-empty sources value, on a host that is not a picture element, ends
\* with the host error and leaves the children, generatedSources and
\* initialized as they were.
C33_HostErrorBeforeTeardown ==
    [][(EffectA /\ ngDevMode /\ Len(sources) > 0 /\ hostTag # "PICTURE")
        => /\ lastRun'.outcome = "hostError"
           /\ UNCHANGED <<children, generatedSources, initialized>>]_vars

\* C33 witness: Effect A ended with the host error on a host that has an
\* img[ngSrc] child, and nothing was generated.
C33_Witness ==
    /\ AfterEffectA
    /\ lastRun.outcome = "hostError"
    /\ ngDevMode
    /\ hostTag # "PICTURE"
    /\ HasImg(children)
    /\ Len(sources) = 2
    /\ QueryGenerated(children) = <<>>
    /\ ~initialized

====
